---- MODULE Spec2Model ----
(***************************************************************************)
(* Cabin (seat) reservation and waitlist engine of Study-Space:            *)
(*   backend/app/routers/cabins.py      seat holds                         *)
(*   backend/app/routers/bookings.py    booking ledger                     *)
(*   backend/app/routers/waitlist.py    waitlist queue                     *)
(*   backend/app/services/waitlist_service.py   release coordinator        *)
(* Spec     runs every request handler as one step (serial requests).      *)
(* SpecRace splits acquire_seat_hold and create_booking at their awaits,   *)
(* so that several requests are in flight on one store; SpecCancel and     *)
(* SpecJoin do the same for cancel_booking and join_waitlist.              *)
(* SpecLedger runs the handlers that write booking rows, SpecOwner adds    *)
(* the owner's cabin edits, SpecRoom has two cabins of one reading room.   *)
(* broadcast_cabin_update (app.core.socket_manager) and the Notification   *)
(* row are pushes to clients: they change no cabin, booking or waitlist    *)
(* row and are left out of the state.                                      *)
(***************************************************************************)
EXTENDS Integers, Sequences, FiniteSets

\* ---------------------------------------------------------------- bounds
MaxTime == 30
TickStep == 10
MaxBookings == 2
MaxEntries == 2
MaxSessions == 2
MaxRequests == 5

\* ------------------------------------------------------ program constants
HOLD_DURATION_MINUTES == 5
BOOKING_HOLD_MINUTES == 10
expires_in_minutes == 30

Users == {"u1", "u2", "u3"}
Seats == {"s1"}
NULL == "NULL"

\* ------------------------------------------------------------------ state
VARIABLES cabins, bookings, waitlist, now, resp, sessions, served

vars == <<cabins, bookings, waitlist, now, resp, sessions, served>>

\* Cabin.hold_expires_at is a String column holding an ISO timestamp.  The
\* text is either absent, timezone-aware ("...+00:00") or naive (no offset).
NullStamp == [null |-> TRUE, t |-> 0, aware |-> FALSE]

\* datetime.now(timezone.utc).isoformat(): an aware timestamp text
IsoAware(t) == [null |-> FALSE, t |-> t, aware |-> TRUE]

\* datetime.utcnow().isoformat(): a naive timestamp text
IsoNaive(t) == [null |-> FALSE, t |-> t, aware |-> FALSE]

\* is_hold_expired: a missing text is expired; an aware text is compared with
\* the aware current time; a naive text makes the comparison of an aware with
\* a naive datetime raise TypeError, which the bare except turns into True.
is_hold_expired(hold_expires_at, t) ==
    IF hold_expires_at.null THEN TRUE
    ELSE IF ~hold_expires_at.aware THEN TRUE
    ELSE t >= hold_expires_at.t

\* a freshly created cabin (reading_rooms.py creates cabins AVAILABLE)
NewCabin ==
    [status |-> "AVAILABLE", current_occupant_id |-> NULL,
     held_by_user_id |-> NULL, hold_expires_at |-> NullStamp]

RoomOf(s) == "r1"

\* a request in flight: the handler it runs, where it stands, the cabin row
\* its ORM session loaded (snap), the row with its assignments (dirty), the
\* waitlist row it loaded (entry) and the HTTP status it answered (code)
IdleSession ==
    [op |-> "idle", phase |-> "idle", user |-> NULL, seat |-> NULL,
     snap |-> NewCabin, dirty |-> NewCabin, entry |-> 0, code |-> 0]

NoResp == [op |-> "none", user |-> NULL, seat |-> NULL]

Response(op, u, s) == [op |-> op, user |-> u, seat |-> s]

Init ==
    /\ cabins = [s \in Seats |-> NewCabin]
    /\ bookings = << >>
    /\ waitlist = << >>
    /\ now = 0
    /\ resp = NoResp
    /\ sessions = [r \in 1..MaxSessions |-> IdleSession]
    /\ served = 0

\* a request is carried out: it is counted and remembered as the last one.
\* A rejected request (an HTTPException before any write) changes no row
\* and is a stuttering step; its status code is the handler's *_status.
Serve(op, u, s) ==
    /\ served < MaxRequests
    /\ served' = served + 1
    /\ resp' = Response(op, u, s)

\* --------------------------------------------------- release coordinator
ActiveEntries(wl, s) ==
    {i \in 1..Len(wl) : wl[i].cabin_id = s /\ wl[i].status = "ACTIVE"}

\* mutant of next_entry: the query ordered by created_at descending
next_entry_newest(wl, s) ==
    IF ActiveEntries(wl, s) = {} THEN 0
    ELSE CHOOSE i \in ActiveEntries(wl, s) :
             \A j \in ActiveEntries(wl, s) : i >= j

\* select(WaitlistEntry).where(cabin_id, ACTIVE).order_by(created_at.asc())
\* .first(): rows are appended in the order of their created_at (the clock
\* at INSERT), so the oldest is the smallest index; 0 when there is none.
next_entry(wl, s) ==
    IF ActiveEntries(wl, s) = {} THEN 0
    ELSE CHOOSE i \in ActiveEntries(wl, s) :
             \A j \in ActiveEntries(wl, s) : i <= j

\* WaitlistService.check_waitlist_and_notify
check_waitlist_and_notify(s, cab, wl, t) ==
    LET e == next_entry(wl, s) IN
    IF e # 0
    THEN [cabins |-> [cab EXCEPT ![s] =
                        [@ EXCEPT !.status = "RESERVED",
                                  !.held_by_user_id = wl[e].user_id,
                                  !.hold_expires_at =
                                      IsoNaive(t + expires_in_minutes)]],
          waitlist |-> [wl EXCEPT ![e] =
                        [@ EXCEPT !.status = "NOTIFIED",
                                  !.notified_at = t,
                                  !.expires_at = t + expires_in_minutes]]]
    ELSE IF cab[s].status = "RESERVED"
    THEN [cabins |-> [cab EXCEPT ![s] =
                        [@ EXCEPT !.status = "AVAILABLE",
                                  !.held_by_user_id = NULL,
                                  !.hold_expires_at = NullStamp]],
          waitlist |-> wl]
    ELSE [cabins |-> cab, waitlist |-> wl]

\* ------------------------------------------------------------ seat holds
\* the checks of acquire_seat_hold, as the HTTP status they end in
acquire_hold_status(c, u, t) ==
    IF c.status = "OCCUPIED" THEN 400
    ELSE IF c.status = "MAINTENANCE" THEN 400
    ELSE IF /\ c.held_by_user_id # NULL
            /\ ~is_hold_expired(c.hold_expires_at, t)
            /\ c.held_by_user_id # u THEN 409
    ELSE 200

\* the assignments of acquire_seat_hold
AcquireWrite(c, u, t) ==
    [c EXCEPT !.held_by_user_id = u,
              !.hold_expires_at = IsoAware(t + HOLD_DURATION_MINUTES)]

\* POST /cabins/{cabin_id}/hold
acquire_seat_hold(u, s) ==
    /\ acquire_hold_status(cabins[s], u, now) = 200
    /\ cabins' = [cabins EXCEPT ![s] = AcquireWrite(@, u, now)]
    /\ Serve("acquire_hold", u, s)
    /\ UNCHANGED <<bookings, waitlist, now, sessions>>

release_hold_status(c, u) ==
    IF c.held_by_user_id # u THEN 403 ELSE 200

\* mutant of ReleaseResult: the hold is cleared but the coordinator is not run
ReleaseResult_NoCoordinator(cab, wl, u, s, t) ==
    [cabins |-> [cab EXCEPT ![s] = [@ EXCEPT !.held_by_user_id = NULL,
                                             !.hold_expires_at = NullStamp]],
     waitlist |-> wl]

\* the rows after release_seat_hold: the hold is cleared and committed, then
\* the coordinator runs
ReleaseResult(cab, wl, u, s, t) ==
    check_waitlist_and_notify(s,
        [cab EXCEPT ![s] = [@ EXCEPT !.held_by_user_id = NULL,
                                     !.hold_expires_at = NullStamp]],
        wl, t)

\* DELETE /cabins/{cabin_id}/hold
release_seat_hold(u, s) ==
    /\ release_hold_status(cabins[s], u) = 200
    /\ cabins' = ReleaseResult(cabins, waitlist, u, s, now).cabins
    /\ waitlist' = ReleaseResult(cabins, waitlist, u, s, now).waitlist
    /\ Serve("release_hold", u, s)
    /\ UNCHANGED <<bookings, now, sessions>>

\* --------------------------------------------------------- booking ledger
\* BookingCreate.end_date is the caller's choice and is not validated: a date
\* the clock reaches within the run, so that a booking outlives its end_date
EndDates == {20}

NewBooking(u, s, status, expires_at, payment_status, end_date) ==
    [user_id |-> u, cabin_id |-> s, status |-> status,
     expires_at |-> expires_at, payment_status |-> payment_status,
     end_date |-> end_date]

hold_booking_status(c) ==
    IF c.status # "AVAILABLE" THEN 409 ELSE 200

\* POST /bookings/hold
hold_booking(u, s, end_date) ==
    /\ hold_booking_status(cabins[s]) = 200
    /\ Len(bookings) < MaxBookings
    /\ cabins' = [cabins EXCEPT ![s] = [@ EXCEPT !.status = "RESERVED"]]
    /\ bookings' = Append(bookings,
           NewBooking(u, s, "HELD", now + BOOKING_HOLD_MINUTES,
                      "PENDING", end_date))
    /\ Serve("hold_booking", u, s)
    /\ UNCHANGED <<waitlist, now, sessions>>

confirm_booking_status(bk, b, t) ==
    IF b > Len(bk) \/ bk[b].status # "HELD" THEN 400
    ELSE IF t > bk[b].expires_at THEN 400
    ELSE 200

\* POST /bookings/{booking_id}/confirm
confirm_booking(u, b) ==
    /\ b \in 1..Len(bookings)
    /\ confirm_booking_status(bookings, b, now) = 200
    /\ bookings' = [bookings EXCEPT ![b] =
           [@ EXCEPT !.status = "ACTIVE", !.payment_status = "PAID"]]
    /\ cabins' = [cabins EXCEPT ![bookings[b].cabin_id] =
           [@ EXCEPT !.status = "OCCUPIED", !.current_occupant_id = u]]
    /\ Serve("confirm_booking", u, bookings[b].cabin_id)
    /\ UNCHANGED <<waitlist, now, sessions>>

create_booking_status(c) ==
    IF c.status # "AVAILABLE" THEN 400 ELSE 200

\* the waitlist rows create_booking's query matches: the caller's entries of
\* the cabin's reading room that are ACTIVE or NOTIFIED (of any cabin)
ConvertibleEntries(wl, u, s) ==
    {i \in 1..Len(wl) : /\ wl[i].user_id = u
                        /\ wl[i].reading_room_id = RoomOf(s)
                        /\ wl[i].status \in {"ACTIVE", "NOTIFIED"}}

\* .first() of that query, which has no ORDER BY: any matching row (0: none)
ConvertChoices(wl, u, s) ==
    IF ConvertibleEntries(wl, u, s) = {} THEN {0}
    ELSE ConvertibleEntries(wl, u, s)

Converted(wl, e) ==
    IF e = 0 THEN wl
    ELSE [wl EXCEPT ![e] = [@ EXCEPT !.status = "CONVERTED"]]

\* the assignments create_booking makes to the cabin row
BookWrite(c, u) ==
    [c EXCEPT !.status = "OCCUPIED", !.current_occupant_id = u]

\* POST /bookings/ with a cabin_id (book_direct)
create_booking(u, s, end_date) ==
    /\ create_booking_status(cabins[s]) = 200
    /\ Len(bookings) < MaxBookings
    /\ cabins' = [cabins EXCEPT ![s] = BookWrite(@, u)]
    /\ \E e \in ConvertChoices(waitlist, u, s) :
           waitlist' = Converted(waitlist, e)
    /\ bookings' = Append(bookings,
           NewBooking(u, s, "ACTIVE", -1, "PAID", end_date))
    /\ Serve("create_booking", u, s)
    /\ UNCHANGED <<now, sessions>>

\* mutant of cancel_booking_status: the ownership test is left out
cancel_booking_status_NoOwnerCheck(bk, u, b) ==
    IF b > Len(bk) THEN 404
    ELSE IF bk[b].status = "CANCELLED" THEN 400
    ELSE 200

cancel_booking_status(bk, u, b) ==
    IF b > Len(bk) THEN 404
    ELSE IF bk[b].user_id # u THEN 403
    ELSE IF bk[b].status = "CANCELLED" THEN 400
    ELSE 200

\* mutant of CancelResult: the cabin is freed but the coordinator is not run
CancelResult_NoCoordinator(cab, wl, s, t) ==
    [cabins |-> [cab EXCEPT ![s] = [@ EXCEPT !.status = "AVAILABLE",
                                             !.current_occupant_id = NULL]],
     waitlist |-> wl]

\* the cabin and waitlist rows after cancel_booking: the cabin is set
\* AVAILABLE without occupant and committed, then the coordinator runs
CancelResult(cab, wl, s, t) ==
    check_waitlist_and_notify(s,
        [cab EXCEPT ![s] = [@ EXCEPT !.status = "AVAILABLE",
                                     !.current_occupant_id = NULL]],
        wl, t)

\* POST /bookings/{booking_id}/cancel
cancel_booking(u, b) ==
    /\ b \in 1..Len(bookings)
    /\ cancel_booking_status(bookings, u, b) = 200
    /\ bookings' = [bookings EXCEPT ![b] = [@ EXCEPT !.status = "CANCELLED"]]
    /\ cabins' = CancelResult(cabins, waitlist, bookings[b].cabin_id, now).cabins
    /\ waitlist' =
           CancelResult(cabins, waitlist, bookings[b].cabin_id, now).waitlist
    /\ Serve("cancel_booking", u, bookings[b].cabin_id)
    /\ UNCHANGED <<now, sessions>>

\* --------------------------------------------------------- waitlist queue
NewEntry(u, s, t) ==
    [user_id |-> u, cabin_id |-> s, reading_room_id |-> RoomOf(s),
     status |-> "ACTIVE", created_at |-> t, notified_at |-> -1,
     expires_at |-> -1]

\* the caller's ACTIVE booking of the cabin whose end_date is still ahead
HasActiveBooking(bk, u, s, t) ==
    \E b \in 1..Len(bk) :
        /\ bk[b].user_id = u
        /\ bk[b].cabin_id = s
        /\ bk[b].status = "ACTIVE"
        /\ bk[b].end_date > t

AlreadyQueued(wl, u, s) ==
    \E i \in 1..Len(wl) :
        /\ wl[i].user_id = u
        /\ wl[i].cabin_id = s
        /\ wl[i].status \in {"ACTIVE", "NOTIFIED"}

\* mutant of join_waitlist_status: the existing-entry query is left out
join_waitlist_status_NoQueueCheck(c, bk, wl, u, s, t) ==
    IF c.status = "AVAILABLE" THEN 400
    ELSE IF HasActiveBooking(bk, u, s, t) THEN 400
    ELSE 200

join_waitlist_status(c, bk, wl, u, s, t) ==
    IF c.status = "AVAILABLE" THEN 400
    ELSE IF HasActiveBooking(bk, u, s, t) THEN 400
    ELSE IF AlreadyQueued(wl, u, s) THEN 400
    ELSE 200

\* the cabin ids a request may name: those of the cabins and one of no cabin
CabinIds == Seats \cup {"s0"}

\* join_waitlist's answer for any cabin id: 404 when the SELECT finds no row
join_waitlist_code(cab, bk, wl, u, s, t) ==
    IF s \notin DOMAIN cab THEN 404
    ELSE join_waitlist_status(cab[s], bk, wl, u, s, t)

\* POST /waitlist/
join_waitlist(u, s) ==
    /\ join_waitlist_code(cabins, bookings, waitlist, u, s, now) = 200
    /\ Len(waitlist) < MaxEntries
    /\ waitlist' = Append(waitlist, NewEntry(u, s, now))
    /\ Serve("join_waitlist", u, s)
    /\ UNCHANGED <<cabins, bookings, now, sessions>>

cancel_waitlist_status(wl, u, e) ==
    IF e > Len(wl) THEN 404
    ELSE IF wl[e].user_id # u THEN 403
    ELSE 200

\* the cabin and waitlist rows after cancel_waitlist.  The handler stores
\* CANCELLED in entry.status and only then tests entry.status == NOTIFIED,
\* so the test reads the value just stored.
CancelWaitlistResult(cab, wl, u, e, t) ==
    LET s == wl[e].cabin_id
        cancelled == [wl EXCEPT ![e] = [@ EXCEPT !.status = "CANCELLED"]]
    IN  IF /\ cancelled[e].status = "NOTIFIED"
           /\ cab[s].held_by_user_id = u
        THEN check_waitlist_and_notify(s,
                 [cab EXCEPT ![s] = [@ EXCEPT !.status = "AVAILABLE",
                                              !.held_by_user_id = NULL]],
                 cancelled, t)
        ELSE [cabins |-> cab, waitlist |-> cancelled]

\* POST /waitlist/{entry_id}/cancel
cancel_waitlist(u, e) ==
    /\ e \in 1..Len(waitlist)
    /\ cancel_waitlist_status(waitlist, u, e) = 200
    /\ cabins' = CancelWaitlistResult(cabins, waitlist, u, e, now).cabins
    /\ waitlist' = CancelWaitlistResult(cabins, waitlist, u, e, now).waitlist
    /\ Serve("cancel_waitlist", u, waitlist[e].cabin_id)
    /\ UNCHANGED <<bookings, now, sessions>>

\* ------------------------------------------------------------------ time
Tick ==
    /\ now + TickStep <= MaxTime
    /\ now' = now + TickStep
    /\ UNCHANGED <<cabins, bookings, waitlist, resp, sessions, served>>

Next ==
    \/ \E u \in Users, s \in Seats : acquire_seat_hold(u, s)
    \/ \E u \in Users, s \in Seats : release_seat_hold(u, s)
    \/ \E u \in Users, s \in Seats, d \in EndDates : hold_booking(u, s, d)
    \/ \E u \in Users, b \in 1..MaxBookings : confirm_booking(u, b)
    \/ \E u \in Users, s \in Seats, d \in EndDates : create_booking(u, s, d)
    \/ \E u \in Users, b \in 1..MaxBookings : cancel_booking(u, b)
    \/ \E u \in Users, s \in CabinIds : join_waitlist(u, s)
    \/ \E u \in Users, e \in 1..MaxEntries : cancel_waitlist(u, e)
    \/ Tick

Spec == Init /\ [][Next]_vars

\* ------------------------------------------------- requests in flight
\* Each request runs in its own AsyncSession on the shared store and may be
\* suspended at every await; between its SELECT and its commit other
\* requests run.  db.commit() flushes an UPDATE of the columns the handler
\* assigned a new value, with WHERE id = ? and no test of the row's prior
\* state.
Flush(cur, snap, dirty) ==
    [status |-> IF dirty.status # snap.status
                THEN dirty.status ELSE cur.status,
     current_occupant_id |->
                IF dirty.current_occupant_id # snap.current_occupant_id
                THEN dirty.current_occupant_id ELSE cur.current_occupant_id,
     held_by_user_id |->
                IF dirty.held_by_user_id # snap.held_by_user_id
                THEN dirty.held_by_user_id ELSE cur.held_by_user_id,
     hold_expires_at |->
                IF dirty.hold_expires_at # snap.hold_expires_at
                THEN dirty.hold_expires_at ELSE cur.hold_expires_at]

Free(r) == sessions[r].phase \in {"idle", "done"}

Arrive(r) ==
    /\ Free(r)
    /\ served < MaxRequests
    /\ served' = served + 1

\* acquire_seat_hold up to its commit: SELECT the cabin, run the checks,
\* assign the hold to the loaded row
BeginAcquire(r, u, s) ==
    LET code == acquire_hold_status(cabins[s], u, now) IN
    /\ Arrive(r)
    /\ sessions' = [sessions EXCEPT ![r] =
           [op |-> "acquire_hold",
            phase |-> IF code = 200 THEN "commit" ELSE "done",
            user |-> u, seat |-> s, snap |-> cabins[s],
            dirty |-> IF code = 200 THEN AcquireWrite(cabins[s], u, now)
                      ELSE cabins[s],
            entry |-> 0, code |-> code]]
    /\ UNCHANGED <<cabins, bookings, waitlist, now, resp>>

\* acquire_seat_hold's db.commit() and its 200 response
CommitAcquire(r) ==
    /\ sessions[r].op = "acquire_hold"
    /\ sessions[r].phase = "commit"
    /\ cabins' = [cabins EXCEPT ![sessions[r].seat] =
           Flush(@, sessions[r].snap, sessions[r].dirty)]
    /\ sessions' = [sessions EXCEPT ![r].phase = "done"]
    /\ resp' = Response("acquire_hold", sessions[r].user, sessions[r].seat)
    /\ UNCHANGED <<bookings, waitlist, now, served>>

\* create_booking up to its waitlist query: SELECT the cabin, test its
\* status, assign OCCUPIED and the occupant to the loaded row
BeginBook(r, u, s) ==
    LET code == create_booking_status(cabins[s]) IN
    /\ Arrive(r)
    /\ sessions' = [sessions EXCEPT ![r] =
           [op |-> "create_booking",
            phase |-> IF code = 200 THEN "query" ELSE "done",
            user |-> u, seat |-> s, snap |-> cabins[s],
            dirty |-> IF code = 200 THEN BookWrite(cabins[s], u)
                      ELSE cabins[s],
            entry |-> 0, code |-> code]]
    /\ UNCHANGED <<cabins, bookings, waitlist, now, resp>>

\* create_booking's SELECT of the caller's waitlist entry
QueryBook(r) ==
    /\ sessions[r].op = "create_booking"
    /\ sessions[r].phase = "query"
    /\ \E e \in ConvertChoices(waitlist, sessions[r].user, sessions[r].seat) :
           sessions' = [sessions EXCEPT ![r].entry = e, ![r].phase = "commit"]
    /\ UNCHANGED <<cabins, bookings, waitlist, now, resp, served>>

\* create_booking's db.commit(): the cabin UPDATE, the entry UPDATE and the
\* booking INSERT, and its 200 response
CommitBook(r) ==
    /\ sessions[r].op = "create_booking"
    /\ sessions[r].phase = "commit"
    /\ Len(bookings) < MaxBookings
    /\ cabins' = [cabins EXCEPT ![sessions[r].seat] =
           Flush(@, sessions[r].snap, sessions[r].dirty)]
    /\ waitlist' = Converted(waitlist, sessions[r].entry)
    /\ \E d \in EndDates :
           bookings' = Append(bookings,
               NewBooking(sessions[r].user, sessions[r].seat, "ACTIVE", -1,
                          "PAID", d))
    /\ sessions' = [sessions EXCEPT ![r].phase = "done"]
    /\ resp' = Response("create_booking", sessions[r].user, sessions[r].seat)
    /\ UNCHANGED <<now, served>>

NextRace ==
    \/ \E r \in 1..MaxSessions, u \in Users, s \in Seats : BeginAcquire(r, u, s)
    \/ \E r \in 1..MaxSessions : CommitAcquire(r)
    \/ \E r \in 1..MaxSessions, u \in Users, s \in Seats : BeginBook(r, u, s)
    \/ \E r \in 1..MaxSessions : QueryBook(r)
    \/ \E r \in 1..MaxSessions : CommitBook(r)
    \/ Tick

SpecRace == Init /\ [][NextRace]_vars

\* ------------------------------------------ a cancellation in flight
\* cancel_booking up to its first db.commit(): the checks, the booking set
\* CANCELLED, the cabin set AVAILABLE without occupant.  The session keeps
\* the cabin row as it stands after this commit (expire_on_commit=False).
BeginCancel(r, u, b) ==
    /\ b \in 1..Len(bookings)
    /\ cancel_booking_status(bookings, u, b) = 200
    /\ Arrive(r)
    /\ bookings' = [bookings EXCEPT ![b] = [@ EXCEPT !.status = "CANCELLED"]]
    /\ cabins' = [cabins EXCEPT ![bookings[b].cabin_id] =
           [@ EXCEPT !.status = "AVAILABLE", !.current_occupant_id = NULL]]
    /\ sessions' = [sessions EXCEPT ![r] =
           [op |-> "cancel_booking", phase |-> "coordinate",
            user |-> u, seat |-> bookings[b].cabin_id,
            snap |-> cabins'[bookings[b].cabin_id],
            dirty |-> cabins'[bookings[b].cabin_id],
            entry |-> 0, code |-> 200]]
    /\ UNCHANGED <<waitlist, now, resp>>

\* the coordinator step of cancel_booking, its last commit and the response.
\* Its SELECT of the cabin returns the row the session already holds (the
\* identity map does not refresh a loaded row); the waitlist query reads
\* the store; the commit writes the columns the coordinator assigned.
CoordinateCancel(r) ==
    LET s == sessions[r].seat
        view == sessions[r].snap
        result == check_waitlist_and_notify(s, [cabins EXCEPT ![s] = view],
                                            waitlist, now)
    IN  /\ sessions[r].op = "cancel_booking"
        /\ sessions[r].phase = "coordinate"
        /\ cabins' = [cabins EXCEPT ![s] = Flush(@, view, result.cabins[s])]
        /\ waitlist' = result.waitlist
        /\ sessions' = [sessions EXCEPT ![r].phase = "done",
                                        ![r].dirty = result.cabins[s]]
        /\ resp' = Response("cancel_booking", sessions[r].user, s)
        /\ UNCHANGED <<bookings, now, served>>

\* cancel_booking split at the await between its commit and its coordinator
\* step, among requests that claim the seat or queue for it
NextCancel ==
    \/ \E u \in Users, s \in Seats : acquire_seat_hold(u, s)
    \/ \E u \in Users, s \in Seats, d \in EndDates : hold_booking(u, s, d)
    \/ \E u \in Users, s \in Seats, d \in EndDates : create_booking(u, s, d)
    \/ \E u \in Users, s \in CabinIds : join_waitlist(u, s)
    \/ \E r \in 1..MaxSessions, u \in Users, b \in 1..MaxBookings :
           BeginCancel(r, u, b)
    \/ \E r \in 1..MaxSessions : CoordinateCancel(r)
    \/ Tick

SpecCancel == Init /\ [][NextCancel]_vars

\* ------------------------------------------------- a join in flight
\* join_waitlist up to its INSERT: the cabin, booking and existing-entry
\* queries and their checks
BeginJoin(r, u, s) ==
    LET code == join_waitlist_code(cabins, bookings, waitlist, u, s, now) IN
    /\ code = 200
    /\ Arrive(r)
    /\ sessions' = [sessions EXCEPT ![r] =
           [op |-> "join_waitlist", phase |-> "commit",
            user |-> u, seat |-> s, snap |-> cabins[s], dirty |-> cabins[s],
            entry |-> 0, code |-> code]]
    /\ UNCHANGED <<cabins, bookings, waitlist, now, resp>>

\* join_waitlist's db.add(new_entry), db.commit() and response; created_at
\* is the column default, the clock at the INSERT
CommitJoin(r) ==
    /\ sessions[r].op = "join_waitlist"
    /\ sessions[r].phase = "commit"
    /\ Len(waitlist) < MaxEntries
    /\ waitlist' = Append(waitlist,
           NewEntry(sessions[r].user, sessions[r].seat, now))
    /\ sessions' = [sessions EXCEPT ![r].phase = "done"]
    /\ resp' = Response("join_waitlist", sessions[r].user, sessions[r].seat)
    /\ UNCHANGED <<cabins, bookings, now, served>>

\* join_waitlist split at the awaits between its checks and its INSERT,
\* among the requests that take and free the seat
NextJoin ==
    \/ \E u \in Users, s \in Seats, d \in EndDates : hold_booking(u, s, d)
    \/ \E u \in Users, b \in 1..MaxBookings : cancel_booking(u, b)
    \/ \E r \in 1..MaxSessions, u \in Users, s \in CabinIds : BeginJoin(r, u, s)
    \/ \E r \in 1..MaxSessions : CommitJoin(r)
    \/ Tick

SpecJoin == Init /\ [][NextJoin]_vars

\* ---------------------------------------------------- the booking ledger
\* the new end dates and extension amounts a client sends to /bookings/extend
ExtendDates == {40}
ExtensionAmounts == {0, 100}

extend_booking_status(bk, u, b, extension_amount) ==
    IF b > Len(bk) THEN 404
    ELSE IF bk[b].user_id # u THEN 403
    ELSE IF extension_amount <= 0 THEN 400
    ELSE 200

\* POST /bookings/extend: writes end_date (and amount), nothing else
extend_booking(u, b, new_end_date, extension_amount) ==
    /\ b \in 1..Len(bookings)
    /\ extend_booking_status(bookings, u, b, extension_amount) = 200
    /\ bookings' = [bookings EXCEPT ![b] = [@ EXCEPT !.end_date = new_end_date]]
    /\ Serve("extend_booking", u, bookings[b].cabin_id)
    /\ UNCHANGED <<cabins, waitlist, now, sessions>>

\* ACTIVE -> EXPIRED once the booking's end_date has elapsed: the ledger's
\* time-driven transition, which no handler under src/ carries out
expire_booking(b) ==
    /\ b \in 1..Len(bookings)
    /\ bookings[b].status = "ACTIVE"
    /\ bookings[b].end_date < now
    /\ bookings' = [bookings EXCEPT ![b] = [@ EXCEPT !.status = "EXPIRED"]]
    /\ UNCHANGED <<cabins, waitlist, now, resp, sessions, served>>

\* the operations that write booking rows, with the clock
NextLedger ==
    \/ \E u \in Users, s \in Seats, d \in EndDates : hold_booking(u, s, d)
    \/ \E u \in Users, b \in 1..MaxBookings : confirm_booking(u, b)
    \/ \E u \in Users, s \in Seats, d \in EndDates : create_booking(u, s, d)
    \/ \E u \in Users, b \in 1..MaxBookings : cancel_booking(u, b)
    \/ \E u \in Users, b \in 1..MaxBookings, d \in ExtendDates,
          a \in ExtensionAmounts : extend_booking(u, b, d, a)
    \/ \E b \in 1..MaxBookings : expire_booking(b)
    \/ Tick

SpecLedger == Init /\ [][NextLedger]_vars

\* ------------------------------------------------ the owner's cabin edits
\* the owner of the reading room, whose role passes get_current_admin
Owner == "o1"

CabinStatuses == {"AVAILABLE", "OCCUPIED", "MAINTENANCE", "RESERVED"}

\* a field the request body does not set
Unset == "UNSET"

update_cabin_code(cab, u, s) ==
    IF s \notin DOMAIN cab THEN 404
    ELSE IF u # Owner THEN 403
    ELSE 200

\* the cabin row after update_cabin's setattr loop over the fields the body
\* sets
UpdateWrite(c, status, occupant) ==
    [c EXCEPT !.status = IF status = Unset THEN @ ELSE status,
              !.current_occupant_id = IF occupant = Unset THEN @ ELSE occupant]

\* the cabin and waitlist rows after update_cabin: the coordinator runs only
\* when the status went from another value to AVAILABLE
UpdateResult(cab, wl, s, status, occupant, t) ==
    LET written == [cab EXCEPT ![s] = UpdateWrite(@, status, occupant)] IN
    IF cab[s].status # "AVAILABLE" /\ written[s].status = "AVAILABLE"
    THEN check_waitlist_and_notify(s, written, wl, t)
    ELSE [cabins |-> written, waitlist |-> wl]

\* PUT /cabins/{cabin_id}
update_cabin(u, s, status, occupant) ==
    /\ update_cabin_code(cabins, u, s) = 200
    /\ cabins' = UpdateResult(cabins, waitlist, s, status, occupant, now).cabins
    /\ waitlist' =
           UpdateResult(cabins, waitlist, s, status, occupant, now).waitlist
    /\ Serve("update_cabin", u, s)
    /\ UNCHANGED <<bookings, now, sessions>>

bulk_update_cabins_code(u) ==
    IF u # Owner THEN 403 ELSE 200

\* PATCH /cabins/bulk: the status is assigned to every cabin of the list
\* that exists and committed; the waitlist is not consulted
bulk_update_cabins(u, cabin_ids, status) ==
    /\ bulk_update_cabins_code(u) = 200
    /\ cabins' = [s \in DOMAIN cabins |->
           IF s \in cabin_ids THEN UpdateWrite(cabins[s], status, Unset)
           ELSE cabins[s]]
    /\ Serve("bulk_update_cabins", u, NULL)
    /\ UNCHANGED <<bookings, waitlist, now, sessions>>

\* the owner's edits among the requests that take, free and queue for a seat
NextOwner ==
    \/ \E u \in Users, s \in Seats, d \in EndDates : hold_booking(u, s, d)
    \/ \E u \in Users, s \in Seats, d \in EndDates : create_booking(u, s, d)
    \/ \E u \in Users, b \in 1..MaxBookings : cancel_booking(u, b)
    \/ \E u \in Users, s \in CabinIds : join_waitlist(u, s)
    \/ \E u \in Users \cup {Owner}, s \in CabinIds,
          status \in CabinStatuses \cup {Unset}, occupant \in {Unset, NULL} :
              update_cabin(u, s, status, occupant)
    \/ \E u \in Users \cup {Owner}, ids \in SUBSET CabinIds,
          status \in CabinStatuses \cup {Unset} :
              bulk_update_cabins(u, ids, status)
    \/ Tick

SpecOwner == Init /\ [][NextOwner]_vars

\* -------------------------------------------- two cabins of one room
\* two cabins of the same reading room (RoomOf)
RoomSeats == {"s1", "s2"}

InitRoom ==
    /\ cabins = [s \in RoomSeats |-> NewCabin]
    /\ bookings = << >>
    /\ waitlist = << >>
    /\ now = 0
    /\ resp = NoResp
    /\ sessions = [r \in 1..MaxSessions |-> IdleSession]
    /\ served = 0

\* the requests that book, cancel and queue, aimed at either cabin
NextRoom ==
    \/ \E u \in Users, s \in RoomSeats, d \in EndDates : hold_booking(u, s, d)
    \/ \E u \in Users, s \in RoomSeats, d \in EndDates :
           create_booking(u, s, d)
    \/ \E u \in Users, b \in 1..MaxBookings : cancel_booking(u, b)
    \/ \E u \in Users, s \in RoomSeats : join_waitlist(u, s)
    \/ \E u \in Users, e \in 1..MaxEntries : cancel_waitlist(u, e)
    \/ Tick

SpecRoom == InitRoom /\ [][NextRoom]_vars

\* ============================================================== claims
\* what a claim reads off a step
Served(op, u, s) ==
    /\ served' = served + 1
    /\ resp' = Response(op, u, s)

\* the stored hold or offer has not reached its expiry instant
Unexpired(c, t) == ~c.hold_expires_at.null /\ t < c.hold_expires_at.t

\* session r was answered 200 by acquire_seat_hold
Granted(r) ==
    /\ sessions[r].op = "acquire_hold"
    /\ sessions[r].phase = "done"
    /\ sessions[r].code = 200

\* session r was answered 200 by create_booking
Booked(r) ==
    /\ sessions[r].op = "create_booking"
    /\ sessions[r].phase = "done"
    /\ sessions[r].code = 200

\* C1: mutual exclusion of holds.  No two distinct users have both been
\* granted a hold on the same seat whose expiry has not yet passed; two
\* concurrent acquire_hold calls on a free seat do not both return success.
C1_MutualExclusion ==
    \A r1, r2 \in 1..MaxSessions :
        ( /\ Granted(r1) /\ Granted(r2)
          /\ sessions[r1].seat = sessions[r2].seat
          /\ now < sessions[r1].dirty.hold_expires_at.t
          /\ now < sessions[r2].dirty.hold_expires_at.t )
        => sessions[r1].user = sessions[r2].user

\* C2: of two concurrent book_direct calls by distinct users on one
\* AVAILABLE seat exactly one creates an ACTIVE booking and occupies the
\* seat; the other is rejected and creates no booking.
C2_OneDirectBookingWins ==
    /\ \A r1, r2 \in 1..MaxSessions :
           ( /\ Booked(r1) /\ Booked(r2)
             /\ sessions[r1].seat = sessions[r2].seat )
           => sessions[r1].user = sessions[r2].user
    /\ \A b1, b2 \in 1..Len(bookings) :
           ( /\ bookings[b1].cabin_id = bookings[b2].cabin_id
             /\ bookings[b1].status = "ACTIVE"
             /\ bookings[b2].status = "ACTIVE" )
           => bookings[b1].user_id = bookings[b2].user_id

\* the entries a step moves from ACTIVE to NOTIFIED
Promoted ==
    {i \in 1..Len(waitlist) :
        waitlist[i].status = "ACTIVE" /\ waitlist'[i].status = "NOTIFIED"}

\* C3: release triggers promotion.  When cancel_booking succeeds on an
\* ACTIVE booking whose seat has an ACTIVE waitlist entry, exactly one entry,
\* an entry of that seat, has moved ACTIVE to NOTIFIED on return, the seat is
\* RESERVED and its holder is that entry's user.
C3_ReleaseTriggersPromotion ==
    [][\A b \in 1..Len(bookings) :
          ( /\ bookings[b].status = "ACTIVE"
            /\ bookings'[b].status = "CANCELLED"
            /\ ActiveEntries(waitlist, bookings[b].cabin_id) # {} )
          => /\ Cardinality(Promoted) = 1
             /\ \A i \in Promoted :
                   /\ waitlist[i].cabin_id = bookings[b].cabin_id
                   /\ cabins'[bookings[b].cabin_id].status = "RESERVED"
                   /\ cabins'[bookings[b].cabin_id].held_by_user_id =
                          waitlist[i].user_id]_vars

\* C3 witness: a cancel_booking of a paid (ACTIVE) booking has just returned
\* with a waiter of the seat notified at this instant and holding the seat.
C3_Witness ==
    /\ resp.op = "cancel_booking"
    /\ \E b \in 1..Len(bookings), i \in 1..Len(waitlist) :
          /\ bookings[b].status = "CANCELLED"
          /\ bookings[b].payment_status = "PAID"
          /\ bookings[b].user_id = resp.user
          /\ waitlist[i].cabin_id = bookings[b].cabin_id
          /\ waitlist[i].status = "NOTIFIED"
          /\ waitlist[i].notified_at = now
          /\ cabins[resp.seat].status = "RESERVED"
          /\ cabins[resp.seat].held_by_user_id = waitlist[i].user_id

C5_HeldByOtherRejected ==
    [][\A u \in Users, s \in Seats :
          ( /\ cabins[s].status \notin {"OCCUPIED", "MAINTENANCE"}
            /\ cabins[s].held_by_user_id \notin {NULL, u}
            /\ Unexpired(cabins[s], now)
            /\ Served("acquire_hold", u, s) )
          => /\ acquire_hold_status(cabins[s], u, now) = 409
             /\ cabins'[s] = cabins[s]]_vars

\* C6: while a user holds an unexpired hold obtained via acquire_hold, no
\* hold_booking or book_direct by another user on that seat succeeds.
C6_HoldBlocksBooking ==
    [][\A u \in Users, s \in Seats :
          ( /\ cabins[s].held_by_user_id \notin {NULL, u}
            /\ cabins[s].hold_expires_at.aware
            /\ Unexpired(cabins[s], now)
            /\ \/ Served("hold_booking", u, s)
               \/ Served("create_booking", u, s) )
          => /\ hold_booking_status(cabins[s]) # 200
             /\ create_booking_status(cabins[s]) # 200
             /\ bookings' = bookings]_vars

\* C7: while a user's HELD booking is unexpired and the seat is locked by
\* it, no acquire_hold, release_hold, hold_booking, book_direct or
\* join_waitlist by another user makes the seat AVAILABLE or adds a booking
\* on it.
C7_HoldBookingLocks ==
    [][\A b \in 1..Len(bookings), v \in Users :
          ( /\ bookings[b].status = "HELD"
            /\ now <= bookings[b].expires_at
            /\ cabins[bookings[b].cabin_id].status # "AVAILABLE"
            /\ v # bookings[b].user_id
            /\ \E op \in {"acquire_hold", "release_hold", "hold_booking",
                          "create_booking", "join_waitlist"} :
                   Served(op, v, bookings[b].cabin_id) )
          => /\ cabins'[bookings[b].cabin_id].status # "AVAILABLE"
             /\ Len(bookings') = Len(bookings)]_vars

\* user u has the seat's current, unexpired offer: a NOTIFIED entry whose
\* offer window is open, and the seat is held for u
HasOffer(u, s) ==
    /\ cabins[s].held_by_user_id = u
    /\ \E e \in 1..Len(waitlist) :
          /\ waitlist[e].user_id = u
          /\ waitlist[e].cabin_id = s
          /\ waitlist[e].status = "NOTIFIED"
          /\ now < waitlist[e].expires_at

\* C8: a user whose entry is NOTIFIED and whose offer has not expired can
\* book the seat, by book_direct or by hold_booking.
C8_OfferCanBeBooked ==
    \A u \in Users, s \in Seats :
        HasOffer(u, s)
        => /\ create_booking_status(cabins[s]) = 200
           /\ hold_booking_status(cabins[s]) = 200

\* C9: once a NOTIFIED entry's expires_at has passed and another user is
\* waiting, the next request carried out on the seat moves the entry to
\* EXPIRED and offers the seat to the oldest ACTIVE entry.
C9_ExpiredOfferPassesOn ==
    [][\A e \in 1..Len(waitlist) :
          LET s == waitlist[e].cabin_id
              a == next_entry(waitlist, s)
          IN  ( /\ waitlist[e].status = "NOTIFIED"
                /\ now >= waitlist[e].expires_at
                /\ a # 0
                /\ served' = served + 1
                /\ resp'.seat = s )
              => /\ waitlist'[e].status = "EXPIRED"
                 /\ waitlist'[a].status = "NOTIFIED"
                 /\ cabins'[s].held_by_user_id = waitlist[a].user_id]_vars

\* C10: when its owner cancels a NOTIFIED entry that holds the seat, on
\* return the seat no longer carries that user's hold and the coordinator
\* has run: the oldest ACTIVE entry is NOTIFIED and holds the seat, or the
\* seat is AVAILABLE.
C10_CancelledOfferPassesOn ==
    [][\A e \in 1..Len(waitlist) :
          LET s == waitlist[e].cabin_id
              u == waitlist[e].user_id
              a == next_entry(waitlist, s)
          IN  ( /\ waitlist[e].status = "NOTIFIED"
                /\ cabins[s].held_by_user_id = u
                /\ Served("cancel_waitlist", u, s)
                /\ waitlist'[e].status = "CANCELLED" )
              => /\ cabins'[s].held_by_user_id # u
                 /\ IF a # 0
                    THEN /\ waitlist'[a].status = "NOTIFIED"
                         /\ cabins'[s].held_by_user_id = waitlist[a].user_id
                    ELSE cabins'[s].status = "AVAILABLE"]_vars

\* the seat carries a hold or offer whose expiry instant has been reached
LapsedHold(c, t) ==
    /\ c.held_by_user_id # NULL
    /\ ~c.hold_expires_at.null
    /\ t >= c.hold_expires_at.t

\* the seat has a booking that is HELD or ACTIVE
HasLiveBooking(bk, s) ==
    \E b \in 1..Len(bk) :
        bk[b].cabin_id = s /\ bk[b].status \in {"HELD", "ACTIVE"}

\* C11: lazy-expiry idempotence.  acquire_hold by any user on a seat whose
\* hold or offer has expired (the seat carrying no HELD or ACTIVE booking
\* and being neither OCCUPIED nor in MAINTENANCE) is granted and leaves the
\* seat as acquire_hold leaves an AVAILABLE seat without holder: status
\* AVAILABLE, holder the caller, hold_expires_at = now + ttl.
C11_LazyExpiryIdempotent ==
    [][\A u \in Users, s \in Seats :
          ( /\ LapsedHold(cabins[s], now)
            /\ cabins[s].status \notin {"OCCUPIED", "MAINTENANCE"}
            /\ ~HasLiveBooking(bookings, s)
            /\ Served("acquire_hold", u, s) )
          => cabins'[s] = AcquireWrite(NewCabin, u, now)]_vars

\* C12: no starvation on an empty queue.  Every release of a seat carried
\* out while the seat has no ACTIVE waitlist entry (release_hold by the
\* holder, cancel_booking by the booking's owner) leaves the seat AVAILABLE
\* and without holder.
C12_ReleaseOnEmptyQueueFrees ==
    [][\A u \in Users, s \in Seats :
          ( /\ ActiveEntries(waitlist, s) = {}
            /\ \/ Served("release_hold", u, s)
               \/ Served("cancel_booking", u, s) )
          => /\ cabins'[s].status = "AVAILABLE"
             /\ cabins'[s].held_by_user_id = NULL]_vars

\* C13 as claimed: join_waitlist creates an entry only if the seat exists,
\* is not AVAILABLE, the caller has no ACTIVE booking of the seat and no
\* ACTIVE or NOTIFIED entry of it.
C13_JoinOnlyWithoutActiveBooking ==
    [][\A u \in Users, s \in CabinIds :
          Served("join_waitlist", u, s)
          => /\ s \in Seats
             /\ cabins[s].status # "AVAILABLE"
             /\ ~\E b \in 1..Len(bookings) :
                    /\ bookings[b].user_id = u
                    /\ bookings[b].cabin_id = s
                    /\ bookings[b].status = "ACTIVE"
             /\ ~\E i \in 1..Len(waitlist) :
                    /\ waitlist[i].user_id = u
                    /\ waitlist[i].cabin_id = s
                    /\ waitlist[i].status \in {"ACTIVE", "NOTIFIED"}]_vars

\* the conditions of C13 as amended, on the rows before the request
JoinAllowed(u, s) ==
    /\ s \in Seats
    /\ cabins[s].status # "AVAILABLE"
    /\ ~\E b \in 1..Len(bookings) :
           /\ bookings[b].user_id = u
           /\ bookings[b].cabin_id = s
           /\ bookings[b].status = "ACTIVE"
           /\ bookings[b].end_date > now
    /\ ~\E i \in 1..Len(waitlist) :
           /\ waitlist[i].user_id = u
           /\ waitlist[i].cabin_id = s
           /\ waitlist[i].status \in {"ACTIVE", "NOTIFIED"}

\* C13 amended: join_waitlist is accepted (200) if and only if the seat
\* exists, is not AVAILABLE, the caller has no ACTIVE booking of the seat
\* whose end_date is still ahead, and no ACTIVE or NOTIFIED entry of it;
\* otherwise it answers 404 or 400.  A step adds an entry only as an accepted
\* join_waitlist, which appends one ACTIVE entry of the caller for the seat
\* and changes no seat and no other entry.
C13_JoinIffAllowed ==
    [][/\ \A u \in Users, s \in CabinIds :
            /\ JoinAllowed(u, s)
               <=> join_waitlist_code(cabins, bookings, waitlist, u, s, now)
                       = 200
            /\ ~JoinAllowed(u, s)
               => join_waitlist_code(cabins, bookings, waitlist, u, s, now)
                      = (IF s \in Seats THEN 400 ELSE 404)
            /\ Served("join_waitlist", u, s)
               => /\ JoinAllowed(u, s)
                  /\ Len(waitlist') = Len(waitlist) + 1
                  /\ \A i \in 1..Len(waitlist) : waitlist'[i] = waitlist[i]
                  /\ waitlist'[Len(waitlist')].user_id = u
                  /\ waitlist'[Len(waitlist')].cabin_id = s
                  /\ waitlist'[Len(waitlist')].status = "ACTIVE"
                  /\ cabins' = cabins
       /\ Len(waitlist') # Len(waitlist) => resp'.op = "join_waitlist"]_vars

\* C13 witness: a user whose ACTIVE booking of the seat has reached its
\* end_date has just been put on the seat's waitlist.
C13_Witness ==
    /\ resp.op = "join_waitlist"
    /\ \E i \in 1..Len(waitlist), b \in 1..Len(bookings) :
          /\ waitlist[i].user_id = resp.user
          /\ waitlist[i].cabin_id = resp.seat
          /\ waitlist[i].status = "ACTIVE"
          /\ waitlist[i].created_at = now
          /\ bookings[b].user_id = resp.user
          /\ bookings[b].cabin_id = resp.seat
          /\ bookings[b].status = "ACTIVE"
          /\ bookings[b].end_date <= now

\* C14: cancel_booking succeeds only for the booking's owner on a booking
\* that is not CANCELLED: a missing booking is answered 404, another caller
\* 403, a CANCELLED booking 400; a booking becomes CANCELLED only in a
\* cancel_booking carried out for its owner, and every cancel_booking carried
\* out cancels a booking of the caller that was not CANCELLED.
C14_CancelOnlyByOwner ==
    [][/\ \A u \in Users, b \in 1..MaxBookings :
            cancel_booking_status(bookings, u, b) =
                (IF b > Len(bookings) THEN 404
                 ELSE IF bookings[b].user_id # u THEN 403
                 ELSE IF bookings[b].status = "CANCELLED" THEN 400
                 ELSE 200)
       /\ \A b \in 1..Len(bookings) :
            (bookings[b].status # "CANCELLED"
                 /\ bookings'[b].status = "CANCELLED")
            => Served("cancel_booking", bookings[b].user_id,
                      bookings[b].cabin_id)
       /\ \A u \in Users, s \in Seats :
            Served("cancel_booking", u, s)
            => \E b \in 1..Len(bookings) :
                   /\ bookings[b].user_id = u
                   /\ bookings[b].cabin_id = s
                   /\ bookings[b].status # "CANCELLED"
                   /\ bookings'[b].status = "CANCELLED"
                   /\ \A c \in 1..Len(bookings) \ {b} :
                          bookings'[c] = bookings[c]]_vars

\* C14 witness: the owner's cancel_booking has just returned; repeating it
\* would be answered 400 and any other user's attempt 403.
C14_Witness ==
    /\ resp.op = "cancel_booking"
    /\ \E b \in 1..Len(bookings) :
          /\ bookings[b].user_id = resp.user
          /\ bookings[b].cabin_id = resp.seat
          /\ bookings[b].status = "CANCELLED"
          /\ cancel_booking_status(bookings, resp.user, b) = 400
          /\ \E v \in Users \ {resp.user} :
                 cancel_booking_status(bookings, v, b) = 403

\* C15: confirm_booking moves a booking from HELD to ACTIVE only when the
\* current time is strictly before the booking's expires_at; at or after
\* expires_at the booking stays HELD.
C15_ConfirmOnlyBeforeExpiry ==
    [][\A b \in 1..Len(bookings) :
          (bookings[b].status = "HELD" /\ bookings'[b].status = "ACTIVE")
          => now < bookings[b].expires_at]_vars

\* C16: release_hold is accepted only for the seat's current holder, any
\* other caller being answered 403.  When it is carried out and the seat
\* has an ACTIVE waitlist entry, an oldest such entry is NOTIFIED and its
\* user holds the seat on return; when the seat has none, the holder and the
\* expiry are cleared.  No other entry changes.
C16_ReleaseOnlyByHolder ==
    [][\A u \in Users, s \in Seats :
          /\ release_hold_status(cabins[s], u) =
                 (IF cabins[s].held_by_user_id = u THEN 200 ELSE 403)
          /\ Served("release_hold", u, s)
             => /\ cabins[s].held_by_user_id = u
                /\ IF ActiveEntries(waitlist, s) # {}
                   THEN \E a \in ActiveEntries(waitlist, s) :
                          /\ \A j \in ActiveEntries(waitlist, s) :
                                 waitlist[a].created_at
                                     <= waitlist[j].created_at
                          /\ waitlist'[a].status = "NOTIFIED"
                          /\ cabins'[s].held_by_user_id = waitlist[a].user_id
                          /\ \A j \in 1..Len(waitlist) \ {a} :
                                 waitlist'[j] = waitlist[j]
                   ELSE /\ cabins'[s].held_by_user_id = NULL
                        /\ cabins'[s].hold_expires_at.null
                        /\ waitlist' = waitlist]_vars

\* C16 witness: the holder's release_hold has just returned and a waiter of
\* the seat, another user, was notified by it and now holds the seat.
C16_Witness ==
    /\ resp.op = "release_hold"
    /\ \E i \in 1..Len(waitlist) :
          /\ waitlist[i].cabin_id = resp.seat
          /\ waitlist[i].user_id # resp.user
          /\ waitlist[i].status = "NOTIFIED"
          /\ waitlist[i].notified_at = now
          /\ cabins[resp.seat].held_by_user_id = waitlist[i].user_id
          /\ release_hold_status(cabins[resp.seat], resp.user) = 403

\* C17: booking/seat consistency.  Each ACTIVE booking has its seat OCCUPIED
\* with the booking's user as occupant, and each OCCUPIED seat with occupant
\* u has an ACTIVE booking of u for that seat.
C17_BookingSeatConsistent ==
    /\ \A b \in 1..Len(bookings) :
          bookings[b].status = "ACTIVE"
          => /\ cabins[bookings[b].cabin_id].status = "OCCUPIED"
             /\ cabins[bookings[b].cabin_id].current_occupant_id =
                    bookings[b].user_id
    /\ \A s \in Seats :
          cabins[s].status = "OCCUPIED"
          => \E b \in 1..Len(bookings) :
                 /\ bookings[b].cabin_id = s
                 /\ bookings[b].status = "ACTIVE"
                 /\ bookings[b].user_id = cabins[s].current_occupant_id

\* C18: a claim racing a cancellation cannot both win.  When the coordinator
\* step of a cancel_booking promotes a waiter, no other user has, since the
\* cancellation freed the seat, taken it with a HELD or ACTIVE booking or
\* with a granted, unexpired hold.
C18_CancelRaceOneWins ==
    [][\A r \in 1..MaxSessions :
          LET s == sessions[r].seat IN
          ( /\ sessions[r].op = "cancel_booking"
            /\ sessions[r].phase = "coordinate"
            /\ sessions'[r].phase = "done"
            /\ Promoted # {} )
          => /\ ~\E b \in 1..Len(bookings), i \in Promoted :
                    /\ bookings[b].cabin_id = s
                    /\ bookings[b].status \in {"HELD", "ACTIVE"}
                    /\ bookings[b].user_id # waitlist[i].user_id
                    /\ cabins[s].status # sessions[r].snap.status
             /\ ~\E i \in Promoted :
                    /\ cabins[s].held_by_user_id
                           \notin {NULL, waitlist[i].user_id}
                    /\ cabins[s].hold_expires_at
                           # sessions[r].snap.hold_expires_at
                    /\ Unexpired(cabins[s], now)]_vars

\* the seat's HELD bookings whose expires_at has passed
LapsedHeldBookings(s) ==
    {b \in 1..Len(bookings) : /\ bookings[b].cabin_id = s
                              /\ bookings[b].status = "HELD"
                              /\ now > bookings[b].expires_at}

\* every claim on the seat has expired and there is one: the seat is neither
\* OCCUPIED nor in MAINTENANCE, has no ACTIVE booking and no unexpired HELD
\* booking, and its hold or offer, if any, has reached its expiry
OnlyLapsedClaims(s) ==
    /\ cabins[s].status \notin {"OCCUPIED", "MAINTENANCE"}
    /\ cabins[s].held_by_user_id # NULL => LapsedHold(cabins[s], now)
    /\ \A b \in 1..Len(bookings) :
          (bookings[b].cabin_id = s /\ bookings[b].status \in {"HELD", "ACTIVE"})
          => b \in LapsedHeldBookings(s)
    /\ \/ LapsedHold(cabins[s], now)
       \/ LapsedHeldBookings(s) # {}

\* C19: expired claims never block a seat.  On a seat whose only claims are
\* expired ones book_direct and hold_booking are accepted.
C19_LapsedClaimsDoNotBlock ==
    \A s \in Seats :
        OnlyLapsedClaims(s)
        => /\ create_booking_status(cabins[s]) = 200
           /\ hold_booking_status(cabins[s]) = 200

\* C20: each seat has at most one waitlist entry in status NOTIFIED.
C20_OneNotifiedPerSeat ==
    \A i, j \in 1..Len(waitlist) :
        ( /\ waitlist[i].cabin_id = waitlist[j].cabin_id
          /\ waitlist[i].status = "NOTIFIED"
          /\ waitlist[j].status = "NOTIFIED" )
        => i = j

\* C21: for each pair (user, seat) there is at most one waitlist entry whose
\* status is ACTIVE or NOTIFIED, also when the user's join_waitlist requests
\* for the seat run concurrently.
C21_OneLiveEntryPerUserSeat ==
    \A i, j \in 1..Len(waitlist) :
        ( /\ waitlist[i].user_id = waitlist[j].user_id
          /\ waitlist[i].cabin_id = waitlist[j].cabin_id
          /\ waitlist[i].status \in {"ACTIVE", "NOTIFIED"}
          /\ waitlist[j].status \in {"ACTIVE", "NOTIFIED"} )
        => i = j

\* C22: in every committed state a seat is OCCUPIED if and only if it has an
\* occupant; in particular no operation, the coordinator included, leaves an
\* occupant on a seat that is AVAILABLE or RESERVED.
C22_OccupiedIffOccupant ==
    \A s \in DOMAIN cabins :
        cabins[s].status = "OCCUPIED" <=> cabins[s].current_occupant_id # NULL

\* C23: in every committed state a RESERVED seat has a holder and a
\* hold_expires_at, and after hold_booking has been carried out the holder is
\* the booking's user and hold_expires_at is the HELD booking's expires_at.
C23_ReservedHasHolder ==
    /\ \A s \in DOMAIN cabins :
           cabins[s].status = "RESERVED" =>
               /\ cabins[s].held_by_user_id # NULL
               /\ ~cabins[s].hold_expires_at.null
    /\ resp.op = "hold_booking" =>
           /\ cabins[resp.seat].held_by_user_id = resp.user
           /\ ~cabins[resp.seat].hold_expires_at.null
           /\ cabins[resp.seat].hold_expires_at.t =
                  bookings[Len(bookings)].expires_at

\* C24: in every committed state no seat has both a holder and an occupant.
C24_HolderOccupantExclusive ==
    \A s \in DOMAIN cabins :
        ~( /\ cabins[s].held_by_user_id # NULL
           /\ cabins[s].current_occupant_id # NULL )

\* C25: booking statuses CANCELLED and EXPIRED are terminal and booking
\* records are never removed: no step changes the status of a booking that is
\* CANCELLED or EXPIRED, and every booking of a state is still there, for
\* the same user and seat, in the next.
C25_TerminalBookingStatuses ==
    [][ \A b \in 1..Len(bookings) :
            /\ b <= Len(bookings')
            /\ bookings'[b].user_id = bookings[b].user_id
            /\ bookings'[b].cabin_id = bookings[b].cabin_id
            /\ bookings[b].status \in {"CANCELLED", "EXPIRED"} =>
                   bookings'[b].status = bookings[b].status ]_vars

\* C26: a free seat never coexists with waiting users: with no request in
\* flight, a seat whose status is AVAILABLE has no ACTIVE waitlist entry,
\* whichever operation freed it (cancel_booking, an owner's single-cabin or
\* bulk status change).
C26_NoWaiterOnFreeSeat ==
    \A s \in DOMAIN cabins :
        cabins[s].status = "AVAILABLE" => ActiveEntries(waitlist, s) = {}

\* C27: per-seat isolation: a request carried out on seat s leaves unchanged
\* every other seat, and every booking and waitlist entry of another seat,
\* other seats of the same reading room included.
C27_PerSeatIsolation ==
    [][ \A u \in Users, s \in DOMAIN cabins :
            ( \E op \in {"hold_booking", "create_booking", "cancel_booking",
                         "join_waitlist", "cancel_waitlist"} :
                  Served(op, u, s) ) =>
                /\ \A o \in DOMAIN cabins \ {s} : cabins'[o] = cabins[o]
                /\ \A b \in 1..Len(bookings) :
                       bookings[b].cabin_id # s => bookings'[b] = bookings[b]
                /\ \A i \in 1..Len(waitlist) :
                       waitlist[i].cabin_id # s => waitlist'[i] = waitlist[i]
      ]_vars

\* the status changes a waitlist entry may make
WaitlistEdges ==
    { <<"ACTIVE", "NOTIFIED">>, <<"NOTIFIED", "CONVERTED">>,
      <<"NOTIFIED", "EXPIRED">>, <<"ACTIVE", "CANCELLED">>,
      <<"NOTIFIED", "CANCELLED">> }

\* C28: a waitlist entry's status changes only ACTIVE -> NOTIFIED,
\* NOTIFIED -> CONVERTED, NOTIFIED -> EXPIRED and ACTIVE or NOTIFIED ->
\* CANCELLED; CONVERTED, EXPIRED and CANCELLED are terminal and no entry goes
\* from ACTIVE straight to CONVERTED.
C28_WaitlistStatusEdges ==
    [][ \A i \in 1..Len(waitlist) :
            /\ i <= Len(waitlist')
            /\ \/ waitlist'[i].status = waitlist[i].status
               \/ <<waitlist[i].status, waitlist'[i].status>> \in WaitlistEdges
      ]_vars

\* C29: no double booking: in every reachable state each seat has at most
\* one booking in status ACTIVE, whatever sequence of bookings, confirmations,
\* cancellations, holds and releases led there.
C29_NoDoubleBooking ==
    \A s \in DOMAIN cabins :
        Cardinality({b \in 1..Len(bookings) :
                        /\ bookings[b].cabin_id = s
                        /\ bookings[b].status = "ACTIVE"}) <= 1

\* C30: confirm_booking takes effect only for the booking's own user: a step
\* in which a booking goes from HELD to ACTIVE is a confirm_booking by
\* booking.user_id, after which the seat's occupant is that user.
C30_ConfirmOnlyByOwner ==
    [][ \A b \in 1..Len(bookings) :
            ( /\ bookings[b].status = "HELD"
              /\ bookings'[b].status = "ACTIVE" ) =>
                /\ Served("confirm_booking", bookings[b].user_id,
                          bookings[b].cabin_id)
                /\ cabins'[bookings[b].cabin_id].current_occupant_id =
                       bookings[b].user_id
      ]_vars

====
